---- MODULE Spec2Model ----
(***************************************************************************)
(* Model of src/lib/fs/path.c: quoted-path unquoting, home-directory       *)
(* expansion, relative/absolute classification, syntactic parent           *)
(* directory, and glob expansion (the recursive Win32 matcher and the      *)
(* adapter around the platform glob()).                                    *)
(*                                                                         *)
(* A C string is a sequence of one-character strings; C indices (0-based)  *)
(* are kept in the translated loops and turned into sequence positions by  *)
(* At.  A function that may return NULL returns a record whose ret field   *)
(* says so.  The build platform (#ifdef _WIN32) is the variable win32.     *)
(***************************************************************************)
EXTENDS Naturals, Integers, Sequences, FiniteSets, TLC

VARIABLES
  win32,   \* TRUE when built with _WIN32 defined
  fs,      \* the directory tree the collaborators read
  op,      \* the function that was called ("none" before any call)
  arg,     \* its string argument
  env,     \* what the collaborators answered during the call
  ret,     \* its return status
  out      \* the string, or list of strings, it returned

vars == <<win32, fs, op, arg, env, ret, out>>

----------------------------------------------------------------------------
(* Bounds of the model *)

\* longest string given to the string functions
MaxLen == 4
\* most path segments in a glob pattern
MaxSegs == 4
\* most paths the platform glob() reports in one call
MaxMatches == 2

----------------------------------------------------------------------------
(* Characters and strings *)

BSL == "\\"
FSL == "/"
DQ == "\""
COLON == ":"
TILDE == "~"
STAR == "*"
QMARK == "?"

Letters == {"a", "b", "c", "h", "u"}

Strings(S, n) == UNION {[1..k -> S] : k \in 0..n}

\* s[i] of C, for 0 <= i <= strlen(s); the terminator reads as "NUL"
At(s, i) == IF i < Len(s) THEN s[i + 1] ELSE "NUL"

\* the C string left when s[n] is set to NUL
Truncate(s, n) == IF n < Len(s) THEN SubSeq(s, 1, n) ELSE s

\* s + n of C
Skip(s, n) == SubSeq(s, n + 1, Len(s))

tor_strndup(s, n) == Truncate(s, n)

TOR_ISALPHA(c) == c \in Letters

\* strcmpend(s, PATH_SEPARATOR) == 0 on the platform without drive letters
EndsWithSlash(s) == Len(s) > 0 /\ s[Len(s)] = FSL

----------------------------------------------------------------------------
(* get_unquoted_path *)

RECURSIVE UnquoteLoop(_, _, _, _)
UnquoteLoop(path, i, end, s) ==
  IF i >= end THEN [ret |-> "ok", out |-> s]
  ELSE IF At(path, i) = DQ /\ (i > 0 /\ At(path, i - 1) = BSL)
       THEN IF Len(s) = 0
            THEN [ret |-> "UB", out |-> <<>>]    \* *(s-1) before the buffer
            ELSE UnquoteLoop(path, i + 1, end,
                             [s EXCEPT ![Len(s)] = At(path, i)])
       ELSE IF At(path, i) # DQ
            THEN UnquoteLoop(path, i + 1, end, Append(s, At(path, i)))
            ELSE [ret |-> "NULL", out |-> <<>>]  \* unescaped quote

\* get_unquoted_path with the loop run up to len, the closing quote included
get_unquoted_path_to_end(path) ==
  LET len == Len(path) IN
  IF len = 0 THEN [ret |-> "ok", out |-> <<>>]
  ELSE LET has_start_quote == IF At(path, 0) = DQ THEN 1 ELSE 0
           has_end_quote == IF len > 0 /\ At(path, len - 1) = DQ THEN 1 ELSE 0
       IN IF has_start_quote # has_end_quote \/ (len = 1 /\ has_start_quote = 1)
          THEN [ret |-> "NULL", out |-> <<>>]
          ELSE UnquoteLoop(path, has_start_quote, len, <<>>)

get_unquoted_path(path) ==
  LET len == Len(path) IN
  IF len = 0 THEN [ret |-> "ok", out |-> <<>>]
  ELSE LET has_start_quote == IF At(path, 0) = DQ THEN 1 ELSE 0
           has_end_quote == IF len > 0 /\ At(path, len - 1) = DQ THEN 1 ELSE 0
       IN IF has_start_quote # has_end_quote \/ (len = 1 /\ has_start_quote = 1)
          THEN [ret |-> "NULL", out |-> <<>>]
          ELSE UnquoteLoop(path, has_start_quote, len - has_end_quote, <<>>)

----------------------------------------------------------------------------
(* expand_filename *)

\* an answer of getenv("HOME") or get_user_homedir(): NULL, or a string
NoAnswer == [null |-> TRUE, val |-> <<>>]
Answer(s) == [null |-> FALSE, val |-> s]

\* strchr(s, '/'): the index of the first '/', or -1
RECURSIVE strchr_slash(_, _)
strchr_slash(s, i) ==
  IF i >= Len(s) THEN -1
  ELSE IF At(s, i) = FSL THEN i ELSE strchr_slash(s, i + 1)

\* lines 135-142: strip one trailing slash of a home longer than one
\* character, then print home, PATH_SEPARATOR, rest
JoinHome(home, rest) ==
  LET h == IF Len(home) > 1 /\ EndsWithSlash(home)
           THEN Truncate(home, Len(home) - 1) ELSE home
  IN [ret |-> "ok", out |-> h \o <<FSL>> \o rest]

expand_filename(w32, filename, HOME, homedir) ==
  IF w32 THEN [ret |-> "ok", out |-> filename]
  ELSE IF At(filename, 0) = TILDE
  THEN IF At(filename, 1) = FSL \/ At(filename, 1) = "NUL"
       THEN LET home == IF HOME.null THEN <<>> ELSE HOME.val
                rest == IF Len(filename) >= 2 THEN Skip(filename, 2) ELSE <<>>
            IN JoinHome(home, rest)
       ELSE LET slash == strchr_slash(filename, 0)
                rest == IF slash # -1 THEN Skip(filename, slash + 1) ELSE <<>>
            IN IF homedir.null THEN [ret |-> "NULL", out |-> <<>>]
               ELSE JoinHome(homedir.val, rest)
  ELSE [ret |-> "ok", out |-> filename]

----------------------------------------------------------------------------
(* path_is_relative *)

\* filename is [null, val]: a NULL pointer or a string
path_is_relative(w32, filename) ==
  IF ~filename.null /\ At(filename.val, 0) = FSL THEN 0
  ELSE IF w32 /\ ~filename.null /\ At(filename.val, 0) = BSL THEN 0
  ELSE IF w32 /\ ~filename.null /\ Len(filename.val) > 3
          /\ TOR_ISALPHA(At(filename.val, 0))
          /\ At(filename.val, 1) = COLON /\ At(filename.val, 2) = BSL THEN 0
  ELSE 1

----------------------------------------------------------------------------
(* clean_fname_for_stat *)

clean_fname_for_stat(w32, name) ==
  IF w32
  THEN LET len == Len(name) IN
       IF len = 0 THEN name
       ELSE IF At(name, len - 1) = BSL \/ At(name, len - 1) = FSL
            THEN IF len = 1 \/ (len = 3 /\ At(name, 1) = COLON)
                 THEN name
                 ELSE Truncate(name, len - 1)
            ELSE name
  ELSE name

----------------------------------------------------------------------------
(* get_parent_directory *)

\* lines 222-226
IsSep(w32, c) == c = FSL \/ (w32 /\ c = BSL)

\* lines 206-212: the characters skipped as a drive prefix
DriveSkip(w32, fname) ==
  IF w32 /\ At(fname, 0) # "NUL" /\ At(fname, 1) = COLON THEN 2 ELSE 0

\* the loop of lines 221-239; base is the index fname was advanced to, cp the
\* index the loop is about to read (after --cp), cur the buffer so far
RECURSIVE ParentLoop(_, _, _, _, _)
ParentLoop(w32, base, cp, at_end, cur) ==
  IF cp < base THEN [ret |-> -1, out |-> cur]
  ELSE IF IsSep(w32, At(cur, cp))
       THEN IF cp = base
            THEN [ret |-> 0, out |-> Truncate(cur, cp + 1)]
            ELSE IF ~at_end
                 THEN [ret |-> 0, out |-> Truncate(cur, cp)]
                 ELSE ParentLoop(w32, base, cp - 1, at_end, Truncate(cur, cp))
       ELSE ParentLoop(w32, base, cp - 1, FALSE, cur)

\* get_parent_directory with at_end starting at 0
get_parent_directory_not_at_end(w32, fname) ==
  ParentLoop(w32, DriveSkip(w32, fname), Len(fname) - 1, FALSE, fname)

get_parent_directory(w32, fname) ==
  ParentLoop(w32, DriveSkip(w32, fname), Len(fname) - 1, TRUE, fname)

----------------------------------------------------------------------------
(* The directory tree and the collaborators that read it *)

NameA == <<"a">>
NameAB == <<"a", "b">>

\* the order in which a directory listing reports names
NameOrder == <<NameA, NameAB>>

\* the entries a tree may hold, each the sequence of names leading to it
Nodes ==
  { <<NameA>>, <<NameA, NameA>>, <<NameA, NameAB>>,
    <<NameA, NameA, NameA>>, <<NameA, NameAB, NameA>> }

Front(s) == SubSeq(s, 1, Len(s) - 1)

\* "locked": a directory that can be neither listed nor searched
KindsOf(n) ==
  IF n = <<NameA, NameA, NameA>> THEN {"absent", "file"}
  ELSE IF n = <<NameA, NameAB, NameA>> THEN {"absent", "other"}
  ELSE {"absent", "file", "dir", "locked"}

FileSystems ==
  { f \in [Nodes -> {"absent", "file", "other", "dir", "locked"}] :
      \A n \in Nodes :
        /\ f[n] \in KindsOf(n)
        /\ (Len(n) > 1 /\ f[n] # "absent") => f[Front(n)] = "dir" }

\* a path's names: split at either separator, empty names dropped
RECURSIVE Components(_, _, _, _)
Components(path, i, cur, acc) ==
  IF i >= Len(path)
  THEN IF cur = <<>> THEN acc ELSE Append(acc, cur)
  ELSE IF At(path, i) = BSL \/ At(path, i) = FSL
       THEN Components(path, i + 1, <<>>,
                       IF cur = <<>> THEN acc ELSE Append(acc, cur))
       ELSE Components(path, i + 1, Append(cur, At(path, i)), acc)

\* what the walk from the working directory (the tree's root) finds
RECURSIVE Lookup(_, _)
Lookup(f, comps) ==
  IF comps = <<>> THEN "dir"
  ELSE LET above == Lookup(f, Front(comps)) IN
       IF above = "dir"
       THEN IF comps \in Nodes THEN f[comps] ELSE "absent"
       ELSE IF above = "locked" \/ above = "error" THEN "error"
       ELSE "absent"

file_status(f, path) ==
  LET k == Lookup(f, Components(path, 0, <<>>, <<>>)) IN
  CASE k = "error" -> "FN_ERROR"
    [] k = "absent" -> "FN_NOENT"
    [] k = "file" -> "FN_FILE"
    [] k = "other" -> "FN_OTHER"
    [] OTHER -> "FN_DIR"

is_file(st) == st = "FN_FILE"
is_dir(st) == st = "FN_DIR"

\* tor_listdir: the names in the directory, or NULL when it cannot be listed
tor_listdir(f, path) ==
  LET comps == Components(path, 0, <<>>, <<>>) IN
  IF Lookup(f, comps) = "dir"
  THEN [null |-> FALSE,
        list |-> SelectSeq(NameOrder,
                   LAMBDA nm : /\ Append(comps, nm) \in Nodes
                               /\ f[Append(comps, nm)] # "absent")]
  ELSE [null |-> TRUE, list |-> <<>>]

\* PathMatchSpec: '*' stands for any run of characters, '?' for any one
RECURSIVE PathMatchSpec(_, _)
PathMatchSpec(pszFile, pszSpec) ==
  IF pszSpec = <<>> THEN pszFile = <<>>
  ELSE IF Head(pszSpec) = STAR
       THEN \/ PathMatchSpec(pszFile, Tail(pszSpec))
            \/ (pszFile # <<>> /\ PathMatchSpec(Tail(pszFile), pszSpec))
       ELSE /\ pszFile # <<>>
            /\ (Head(pszSpec) = QMARK \/ Head(pszSpec) = Head(pszFile))
            /\ PathMatchSpec(Tail(pszFile), Tail(pszSpec))

----------------------------------------------------------------------------
(* The Win32 matcher: unglob_win32, add_non_glob_path, tor_glob_win32 *)

\* PATH_SEPARATOR under _WIN32
PATH_SEPARATOR == <<BSL>>

IS_GLOB_CHAR(s, i) == At(s, i) = STAR \/ At(s, i) = QMARK

\* lines 361-373: whether the listed name is kept
UnglobKeeps(f, pattern, curr_sep, full_path) ==
  PathMatchSpec(full_path,
                IF is_dir(file_status(f, full_path))
                THEN clean_fname_for_stat(TRUE, tor_strndup(pattern, curr_sep + 1))
                ELSE tor_strndup(pattern, curr_sep + 1))

\* the loop of lines 360-374 over the listed names, from the k-th on
RECURSIVE UnglobLoop(_, _, _, _, _, _)
UnglobLoop(f, pattern, path_until_glob, curr_sep, filenames, k) ==
  IF k > Len(filenames) THEN <<>>
  ELSE (IF UnglobKeeps(f, pattern, curr_sep,
                       path_until_glob \o PATH_SEPARATOR \o filenames[k])
        THEN <<path_until_glob \o PATH_SEPARATOR \o filenames[k]>>
        ELSE <<>>)
       \o UnglobLoop(f, pattern, path_until_glob, curr_sep, filenames, k + 1)

\* UnglobListed with a failed listing taken for an empty directory
UnglobListedOrEmpty(f, pattern, path_until_glob, curr_sep, filenames) ==
  [null |-> FALSE,
   list |-> IF filenames.null THEN <<>>
            ELSE UnglobLoop(f, pattern, path_until_glob, curr_sep,
                            filenames.list, 1)]

\* lines 355-377, filenames being what tor_listdir returned
UnglobListed(f, pattern, path_until_glob, curr_sep, filenames) ==
  IF filenames.null
  THEN [null |-> TRUE, list |-> <<>>]
  ELSE [null |-> FALSE,
        list |-> UnglobLoop(f, pattern, path_until_glob, curr_sep,
                            filenames.list, 1)]

\* PathUntilGlob without the adjustment for a separator at index 0
PathUntilGlobPlusOne(pattern, prev_sep) == tor_strndup(pattern, prev_sep + 1)

\* lines 351-352
PathUntilGlob(pattern, prev_sep) ==
  tor_strndup(pattern, IF prev_sep < 1 THEN prev_sep + 1 ELSE prev_sep)

unglob_win32(f, pattern, prev_sep, curr_sep) ==
  IF ~is_file(file_status(f, PathUntilGlob(pattern, prev_sep)))
  THEN UnglobListed(f, pattern, PathUntilGlob(pattern, prev_sep), curr_sep,
                    tor_listdir(f, PathUntilGlob(pattern, prev_sep)))
  ELSE [null |-> FALSE, list |-> <<>>]

\* add_non_glob_path without the call of clean_fname_for_stat
add_non_glob_path_as_given(f, path, results) ==
  IF file_status(f, path) = "FN_ERROR" THEN [ok |-> FALSE, results |-> results]
  ELSE IF file_status(f, path) # "FN_NOENT"
       THEN [ok |-> TRUE, results |-> Append(results, path)]
       ELSE [ok |-> TRUE, results |-> results]

add_non_glob_path(f, path, results) ==
  LET file_type == file_status(f, path) IN
  IF file_type = "FN_ERROR" THEN [ok |-> FALSE, results |-> results]
  ELSE IF file_type # "FN_NOENT"
       THEN [ok |-> TRUE,
             results |-> Append(results, clean_fname_for_stat(TRUE, path))]
       ELSE [ok |-> TRUE, results |-> results]

\* lines 406-418: the first path fragment with a glob character
RECURSIVE ScanFragment(_, _, _, _, _)
ScanFragment(pattern, i, prev_sep, curr_sep, is_glob) ==
  IF At(pattern, i) = "NUL"
  THEN [prev_sep |-> prev_sep, curr_sep |-> curr_sep, is_glob |-> is_glob]
  ELSE LET g == is_glob \/ IS_GLOB_CHAR(pattern, i)
           is_last == At(pattern, i + 1) = "NUL"
           is_sep == At(pattern, i) = PATH_SEPARATOR[1] \/ At(pattern, i) = FSL
       IN IF is_sep \/ is_last
          THEN IF g
               THEN [prev_sep |-> curr_sep, curr_sep |-> i, is_glob |-> TRUE]
               ELSE ScanFragment(pattern, i + 1, curr_sep, i, g)
          ELSE ScanFragment(pattern, i + 1, prev_sep, curr_sep, g)

\* NextPath that hands the pattern on as it is
NextPathSamePattern(current_path, pattern, curr_sep) == pattern

\* lines 436-438: the matched path followed by the rest of the pattern
NextPath(current_path, pattern, curr_sep) ==
  current_path \o PATH_SEPARATOR \o Skip(pattern, curr_sep + 1)

\* Rollback that returns what was collected
RollbackNothing(results, error_found) == [null |-> FALSE, list |-> results]

\* lines 452-458: what is returned once the matched paths are processed
Rollback(results, error_found) ==
  IF error_found THEN [null |-> TRUE, list |-> <<>>]
  ELSE [null |-> FALSE, list |-> results]

Max(a, b) == IF a >= b THEN a ELSE b

\* deepest nesting of recursive calls the model follows
LevelCap == MaxSegs + 2

\* A call returns the list (or NULL) and, for the properties, what happened
\* below it: depth, the deepest level of a call (the outermost is 0);
\* failed, whether a listing or a status query failed; dropped, the most
\* results a call had collected when it discarded them.  The steps of a call
\* are operators that take the value of the step before as an argument.
RECURSIVE tor_glob_win32(_, _, _)
RECURSIVE ExpandPaths(_, _, _, _, _, _, _)

\* lines 439-446: one matched path, opened_next being the recursive result
ExpandStep(f, pattern, curr_sep, unglobbed_paths, k, acc, level, opened_next) ==
  IF opened_next.null
  THEN [acc EXCEPT !.error_found = TRUE,
                   !.depth = Max(@, opened_next.depth),
                   !.failed = @ \/ opened_next.failed,
                   !.dropped = Max(@, opened_next.dropped)]
  ELSE ExpandPaths(f, pattern, curr_sep, unglobbed_paths, k + 1,
                   [acc EXCEPT !.results = @ \o opened_next.list,
                               !.depth = Max(@, opened_next.depth),
                               !.failed = @ \/ opened_next.failed,
                               !.dropped = Max(@, opened_next.dropped)],
                   level)

\* the loop of lines 435-447 from the k-th matched path on
ExpandPaths(f, pattern, curr_sep, unglobbed_paths, k, acc, level) ==
  IF k > Len(unglobbed_paths) THEN acc
  ELSE ExpandStep(f, pattern, curr_sep, unglobbed_paths, k, acc, level,
                  tor_glob_win32(f, NextPath(unglobbed_paths[k], pattern,
                                             curr_sep),
                                 level + 1))

\* lines 420-427
NonGlobCase(level, added) ==
  [null |-> ~added.ok,
   list |-> IF added.ok THEN added.results ELSE <<>>,
   depth |-> level, failed |-> ~added.ok, dropped |-> 0]

\* lines 452-458, acc being the state the loop ended in
GlobReturn(acc) ==
  [null |-> Rollback(acc.results, acc.error_found).null,
   list |-> Rollback(acc.results, acc.error_found).list,
   depth |-> acc.depth, failed |-> acc.failed,
   dropped |-> IF acc.error_found THEN Max(acc.dropped, Len(acc.results))
               ELSE acc.dropped]

\* lines 429-450
GlobCase(f, pattern, level, curr_sep, unglobbed_paths) ==
  IF unglobbed_paths.null
  THEN GlobReturn([results |-> <<>>, error_found |-> TRUE, depth |-> level,
                   failed |-> TRUE, dropped |-> 0])
  ELSE GlobReturn(ExpandPaths(f, pattern, curr_sep, unglobbed_paths.list, 1,
                              [results |-> <<>>, error_found |-> FALSE,
                               depth |-> level, failed |-> FALSE,
                               dropped |-> 0],
                              level))

\* lines 420-458, frag being what the scan of lines 406-418 found
AfterScan(f, pattern, level, frag) ==
  IF ~frag.is_glob
  THEN NonGlobCase(level, add_non_glob_path(f, pattern, <<>>))
  ELSE GlobCase(f, pattern, level, frag.curr_sep,
                unglob_win32(f, pattern, frag.prev_sep, frag.curr_sep))

tor_glob_win32(f, pattern, level) ==
  IF level > LevelCap
  THEN [null |-> TRUE, list |-> <<>>, depth |-> level,
        failed |-> FALSE, dropped |-> 0]
  ELSE AfterScan(f, pattern, level, ScanFragment(pattern, 0, -1, -1, FALSE))

\* tor_strreplacechar(s, find, replacement)
tor_strreplacechar(s, find, replacement) ==
  [i \in 1..Len(s) |-> IF s[i] = find THEN replacement ELSE s[i]]

----------------------------------------------------------------------------
(* The adapter around the platform glob(): lines 476-507 *)

\* one trailing PATH_SEPARATOR ('/' here) of a reported match is cut
StripMatch(match) ==
  LET len == Len(match) IN
  IF len > 0 /\ At(match, len - 1) = FSL THEN Truncate(match, len - 1)
  ELSE match

tor_glob_native(glob_ret, gl_pathv) ==
  IF glob_ret = "GLOB_NOMATCH" THEN [null |-> FALSE, list |-> <<>>]
  ELSE IF glob_ret # "0" THEN [null |-> TRUE, list |-> <<>>]
  ELSE [null |-> FALSE,
        list |-> [i \in 1..Len(gl_pathv) |-> StripMatch(gl_pathv[i])]]

\* What glob() may report for a pattern: paths that match it segment by
\* segment ('*' and '?' do not stand for '/').
RECURSIVE FnMatch(_, _)
FnMatch(path, pattern) ==
  IF pattern = <<>> THEN path = <<>>
  ELSE IF Head(pattern) = STAR
       THEN \/ FnMatch(path, Tail(pattern))
            \/ (path # <<>> /\ Head(path) # FSL /\ FnMatch(Tail(path), pattern))
       ELSE /\ path # <<>>
            /\ \/ Head(pattern) = Head(path)
               \/ (Head(pattern) = QMARK /\ Head(path) # FSL)
            /\ FnMatch(Tail(path), Tail(pattern))

----------------------------------------------------------------------------
(* Inputs *)

QuoteChars == {"a", DQ, BSL}
FileNameChars == {TILDE, FSL, "u"}
HomeChars == {FSL, "h"}
RelChars == {"c", COLON, BSL, FSL}
ParentChars == {"a", COLON, BSL, FSL}
NativeChars == {"a", FSL, STAR}

\* s between quotes, each quote of s written as backslash, quote
RECURSIVE EscapeQuotes(_)
EscapeQuotes(s) ==
  IF s = <<>> THEN <<>>
  ELSE (IF Head(s) = DQ THEN <<BSL, DQ>> ELSE <<Head(s)>>)
       \o EscapeQuotes(Tail(s))

Quote(s) == <<DQ>> \o EscapeQuotes(s) \o <<DQ>>

UnquoteInputs ==
  Strings(QuoteChars, MaxLen) \cup {Quote(s) : s \in Strings(QuoteChars, MaxLen)}

\* the two lookups of a call: HOME is set and no user is known, or HOME is
\* unset and the user named has a home directory, or neither
HomeAnswers ==
  {<<Answer(h), NoAnswer>> : h \in Strings(HomeChars, MaxLen)}
    \cup {<<NoAnswer, Answer(h)>> : h \in Strings(HomeChars, MaxLen)}
    \cup {<<NoAnswer, NoAnswer>>}

SegSet == {NameA, NameAB, <<STAR>>, <<"a", QMARK>>}

RECURSIVE Join(_, _)
Join(segs, sep) ==
  IF Len(segs) = 0 THEN <<>>
  ELSE IF Len(segs) = 1 THEN segs[1]
  ELSE segs[1] \o <<sep>> \o Join(Tail(segs), sep)

\* segments joined by one separator, with or without a leading and a
\* trailing one
GlobPatterns ==
  { (IF lead THEN <<sep>> ELSE <<>>) \o Join(segs, sep)
      \o (IF trail THEN <<sep>> ELSE <<>>) :
    segs \in UNION {[1..k -> SegSet] : k \in 1..MaxSegs},
    lead \in BOOLEAN, trail \in BOOLEAN, sep \in {BSL, FSL} }

NativePatterns == Strings(NativeChars, MaxLen) \ {<<>>}

\* the lists glob() may fill gl_pathv with when it returns 0
Reports(pattern) ==
  LET paths == {q \in Strings({"a", FSL}, MaxLen) \ {<<>>} : FnMatch(q, pattern)}
  IN {v \in UNION {[1..k -> paths] : k \in 1..MaxMatches} :
        \A i, j \in 1..Len(v) : i # j => v[i] # v[j]}

NoFs == [n \in Nodes |-> "absent"]
NoEnv == [null |-> TRUE]

----------------------------------------------------------------------------
(* Actions: one call of one function, made from the state no call has  *)
(* been made in; Return holds what the call gave back.                 *)

Return(name, a, e, r, o) ==
  /\ op' = name
  /\ arg' = a
  /\ env' = e
  /\ ret' = r
  /\ out' = o
  /\ UNCHANGED <<win32, fs>>

Returned(name, a, e, result) == Return(name, a, e, result.ret, result.out)

GetUnquotedPath ==
  /\ op = "none"
  /\ \E path \in UnquoteInputs :
       Returned("get_unquoted_path", path, NoEnv, get_unquoted_path(path))

ExpandFilename ==
  /\ op = "none"
  /\ \E filename \in Strings(FileNameChars, MaxLen), h \in HomeAnswers :
       Returned("expand_filename", filename,
                [HOME |-> h[1], homedir |-> h[2]],
                expand_filename(win32, filename, h[1], h[2]))

PathIsRelative ==
  /\ op = "none"
  /\ \E filename \in {NoAnswer} \cup {Answer(s) : s \in Strings(RelChars, MaxLen)} :
       Return("path_is_relative", filename.val, [null |-> filename.null],
              path_is_relative(win32, filename), <<>>)

GetParentDirectory ==
  /\ op = "none"
  /\ \E fname \in Strings(ParentChars, MaxLen) :
       Returned("get_parent_directory", fname, NoEnv,
                get_parent_directory(win32, fname))

\* what tor_glob returns for the list (or NULL) its backend computed
GlobReturned(pattern, e, result) ==
  Return("tor_glob", pattern, e,
         IF result.null THEN "NULL" ELSE "ok", result.list)

\* lines 470-474, result being what tor_glob_win32 returned
TorGlobWin32Returned(pattern, pattern_normalized, result) ==
  GlobReturned(pattern,
               [pattern_normalized |-> pattern_normalized,
                depth |-> result.depth, failed |-> result.failed,
                dropped |-> result.dropped],
               result)

\* lines 470-474 of tor_glob
NormalizeAndGlob(f, pattern, pattern_normalized) ==
  TorGlobWin32Returned(pattern, pattern_normalized,
                       tor_glob_win32(f, pattern_normalized, 0))

\* tor_glob built with _WIN32
TorGlobWin32 ==
  /\ op = "none"
  /\ win32
  /\ \E pattern \in GlobPatterns :
       NormalizeAndGlob(fs, pattern, tor_strreplacechar(pattern, FSL, BSL))

\* tor_glob built without _WIN32; glob() answers glob_ret and gl_pathv
TorGlobNative ==
  /\ op = "none"
  /\ ~win32
  /\ \E pattern \in NativePatterns :
       \E g \in {[glob_ret |-> "0", gl_pathv |-> v] : v \in Reports(pattern)}
                 \cup {[glob_ret |-> e, gl_pathv |-> <<>>] :
                         e \in {"GLOB_NOMATCH", "GLOB_ABORTED", "GLOB_NOSPACE"}} :
         GlobReturned(pattern, g, tor_glob_native(g.glob_ret, g.gl_pathv))

----------------------------------------------------------------------------
(* Specifications *)

Init ==
  /\ win32 \in BOOLEAN
  /\ fs \in FileSystems
  /\ op = "none"
  /\ arg = <<>>
  /\ env = NoEnv
  /\ ret = "none"
  /\ out = <<>>

NextStr ==
  \/ GetUnquotedPath
  \/ ExpandFilename
  \/ PathIsRelative
  \/ GetParentDirectory

NextGlob == TorGlobWin32

NextNative == TorGlobNative

Next == NextStr \/ NextGlob \/ NextNative

Spec == Init /\ [][Next]_vars

\* the string functions, which read no directory tree
InitStr == Init /\ fs = NoFs
SpecStr == InitStr /\ [][NextStr]_vars

\* the Win32 matcher over every tree
InitGlob == Init /\ win32
SpecGlob == InitGlob /\ [][NextGlob]_vars

\* the adapter around the platform glob()
InitNative == Init /\ ~win32 /\ fs = NoFs
SpecNative == InitNative /\ [][NextNative]_vars

----------------------------------------------------------------------------
(* Properties *)

HasGlob(s) == \E i \in 1..Len(s) : s[i] = STAR \/ s[i] = QMARK

\* a call of the Win32 matcher has returned
GlobbedWin32 == op = "tor_glob" /\ win32

\* the path segments of the pattern tor_glob_win32 was given
Segments == Components(env.pattern_normalized, 0, <<>>, <<>>)

\* the literal path before the first segment with a glob character
RECURSIVE LiteralPrefix(_, _)
LiteralPrefix(segs, k) ==
  IF k > Len(segs) \/ HasGlob(segs[k]) THEN <<>>
  ELSE <<segs[k]>> \o LiteralPrefix(segs, k + 1)

ToSet(list) == {list[i] : i \in 1..Len(list)}

(* C1: all-or-nothing.  Whenever, during the expansion of a pattern with a
   glob character, a directory listing fails (unglob_win32 returns NULL) or
   a recursive expansion fails, tor_glob returns NULL: no list is returned
   that holds the matches collected before the failure. *)
C1_AllOrNothing ==
  (GlobbedWin32 /\ HasGlob(env.pattern_normalized) /\ env.failed)
    => (ret = "NULL" /\ out = <<>>)

\* a later branch failed after an earlier one had given matches
C1_Witness ==
  /\ GlobbedWin32
  /\ HasGlob(env.pattern_normalized)
  /\ env.failed
  /\ env.dropped > 0
  /\ ret = "NULL"

\* what the tree holds at the literal prefix of the pattern
PrefixKind == Lookup(fs, LiteralPrefix(Segments, 1))

(* C2 as claimed: when the directory named by the literal prefix before the
   first glob segment cannot be listed (missing or unreadable), tor_glob
   returns an empty list, not NULL. *)
C2_Original ==
  (GlobbedWin32 /\ HasGlob(env.pattern_normalized)
     /\ PrefixKind \in {"absent", "locked", "error"})
    => (ret = "ok" /\ out = <<>>)

(* C2 as amended: when the directory named by the literal prefix cannot be
   listed (missing or unreadable), tor_glob returns NULL; it returns an
   empty list, without error, when the prefix names a regular file. *)
C2_PrefixNotListable ==
  (GlobbedWin32 /\ HasGlob(env.pattern_normalized))
    => /\ PrefixKind \in {"absent", "locked", "error"} => ret = "NULL"
       /\ PrefixKind = "file" => (ret = "ok" /\ out = <<>>)

\* the prefix names a directory that is not there
C2_Witness ==
  /\ GlobbedWin32
  /\ HasGlob(env.pattern_normalized)
  /\ LiteralPrefix(Segments, 1) # <<>>
  /\ PrefixKind = "absent"
  /\ ret = "NULL"

\* the stat-safe form: one trailing separator less, unless the path is one
\* separator or a drive root
StatSafeForm(p) ==
  IF Len(p) > 1 /\ p[Len(p)] \in {BSL, FSL} /\ ~(Len(p) = 3 /\ p[2] = COLON)
  THEN SubSeq(p, 1, Len(p) - 1)
  ELSE p

(* C3: for a pattern without a glob character the result is decided by the
   file status of the pattern alone: an error gives NULL, a missing path an
   empty list, and a file, a directory or anything else the one-element
   list holding the pattern in its stat-safe form. *)
C3_BaseCase ==
  (GlobbedWin32 /\ ~HasGlob(env.pattern_normalized))
    => LET st == file_status(fs, env.pattern_normalized) IN
       /\ st = "FN_ERROR" => ret = "NULL"
       /\ st = "FN_NOENT" => (ret = "ok" /\ out = <<>>)
       /\ st \in {"FN_FILE", "FN_DIR", "FN_OTHER"}
            => (ret = "ok" /\ out = <<StatSafeForm(env.pattern_normalized)>>)

\* an existing directory named with a trailing separator
C3_Witness ==
  /\ GlobbedWin32
  /\ ~HasGlob(env.pattern_normalized)
  /\ file_status(fs, env.pattern_normalized) = "FN_DIR"
  /\ env.pattern_normalized[Len(env.pattern_normalized)] = BSL
  /\ out = <<SubSeq(env.pattern_normalized, 1, Len(env.pattern_normalized) - 1)>>

\* The expansion read off the tree, segment by segment.  segs[k] is the
\* next segment and comps the entry reached so far.  A segment without a glob
\* character is followed; one with a glob character is matched against the
\* names in the directory reached, and only directories are kept when more
\* of the pattern follows.  With strict, a directory that is not there to be
\* listed is an error; without, it contributes nothing.
RECURSIVE Expansion(_, _, _, _, _, _)
Expansion(f, segs, k, comps, trail, strict) ==
  IF k > Len(segs)
  THEN [err |-> Lookup(f, comps) = "error",
        set |-> IF Lookup(f, comps) \in {"error", "absent"} THEN {}
                ELSE {comps}]
  ELSE IF ~HasGlob(segs[k])
  THEN Expansion(f, segs, k + 1, Append(comps, segs[k]), trail, strict)
  ELSE IF Lookup(f, comps) # "dir"
  THEN [err |-> strict /\ Lookup(f, comps) # "file", set |-> {}]
  ELSE LET below ==
             { Expansion(f, segs, k + 1, Append(comps, nm), trail, strict) :
               nm \in { n \in ToSet(NameOrder) :
                        /\ Lookup(f, Append(comps, n)) # "absent"
                        /\ PathMatchSpec(n, segs[k])
                        /\ (k < Len(segs) \/ trail)
                             => Lookup(f, Append(comps, n)) \in {"dir", "locked"} } }
       IN [err |-> \E r \in below : r.err,
           set |-> UNION {r.set : r \in below}]

\* the path naming an entry, as the matcher writes it
PathOf(lead, comps) == (IF lead THEN <<BSL>> ELSE <<>>) \o Join(comps, BSL)

Leads == env.pattern_normalized[1] = BSL
Trails == env.pattern_normalized[Len(env.pattern_normalized)] = BSL

\* no directory of the tree refuses to be listed or searched
NoIOErrors == \A n \in Nodes : fs[n] # "locked"

\* a literal first segment and a glob character in a later one
PrefixedGlob ==
  /\ GlobbedWin32
  /\ Len(Segments) >= 2
  /\ ~HasGlob(Segments[1])
  /\ HasGlob(env.pattern_normalized)

(* C4 as claimed: over a tree without I/O errors, a pattern with a literal
   prefix directory and glob segments expands to exactly the paths found by
   matching each glob segment against the names in the directory reached so
   far and keeping those whose remaining suffix exists; a matched directory
   that lacks the suffix adds nothing and causes no error. *)
C4_Original ==
  (PrefixedGlob /\ NoIOErrors /\ PrefixKind = "dir")
    => /\ ret = "ok"
       /\ ToSet(out) =
            { PathOf(Leads, c) :
              c \in Expansion(fs, Segments, 1, <<>>, Trails, FALSE).set }

(* C4 as amended: over a tree without I/O errors, such a pattern expands to
   exactly those paths, each once, provided every path the pattern names
   before a glob segment - the prefix, and the literal segments between two
   glob segments under every matched directory - is a directory or a regular
   file; if one of them is missing, tor_glob returns NULL. *)
C4_SegmentwiseExpansion ==
  (PrefixedGlob /\ NoIOErrors)
    => LET e == Expansion(fs, Segments, 1, <<>>, Trails, TRUE) IN
       /\ e.err => ret = "NULL"
       /\ ~e.err => /\ ret = "ok"
                    /\ ToSet(out) = {PathOf(Leads, c) : c \in e.set}
                    /\ Len(out) = Cardinality(e.set)

\* dir/*/file: two directories match, one of them holds the file
C4_Witness ==
  /\ PrefixedGlob
  /\ NoIOErrors
  /\ Len(Segments) = 3
  /\ HasGlob(Segments[2])
  /\ ~HasGlob(Segments[3])
  /\ fs[<<NameA, NameA>>] = "dir"
  /\ fs[<<NameA, NameAB>>] = "dir"
  /\ ret = "ok"
  /\ Len(out) = 1

(* C10: the nesting of recursive calls of tor_glob_win32 never exceeds the
   number of path segments of the pattern, so the recursion ends: every call
   returns before the nesting the model follows is exhausted. *)
C10_DepthBounded ==
  GlobbedWin32 => (env.depth <= Len(Segments) /\ env.depth <= LevelCap)

\* three glob segments, each opened by one more call
C10_Witness ==
  /\ GlobbedWin32
  /\ Len(Segments) = 3
  /\ env.depth = 3
  /\ ret = "ok"
  /\ Len(out) = 1

(* C5 as claimed: path_is_relative returns true for an empty or null
   input, false for every path that starts with the platform's path
   separator and, on the drive-letter platform, false for every path with a
   prefix letter, colon, backslash - the three-character drive root
   included. *)
C5_Original ==
  op = "path_is_relative"
    => /\ (env.null \/ arg = <<>>) => ret = 1
       /\ (~env.null /\ Len(arg) >= 1
             /\ arg[1] = (IF win32 THEN BSL ELSE FSL)) => ret = 0
       /\ (win32 /\ ~env.null /\ Len(arg) >= 3 /\ arg[1] \in Letters
             /\ arg[2] = COLON /\ arg[3] = BSL) => ret = 0

\* the separators of the platform
Seps == IF win32 THEN {FSL, BSL} ELSE {FSL}

\* s starts with a separator, or holds one that a later name follows
HasParent(s) ==
  \/ (Len(s) > 0 /\ s[1] \in Seps)
  \/ \E i, j \in 1..Len(s) : i < j /\ s[i] \in Seps /\ s[j] \notin Seps

\* the greatest element of a non-empty set of numbers
Greatest(S) == CHOOSE x \in S : \A y \in S : y <= x

\* s without its trailing separators, cut at the separator before the last
\* name; a separator at the very start stays
ParentOf(s) ==
  LET names == {i \in 1..Len(s) : s[i] \notin Seps} IN
  IF names = {} THEN SubSeq(s, 1, 1)
  ELSE LET j == Greatest({i \in 1..Greatest(names) : s[i] \in Seps}) IN
       IF j = 1 THEN SubSeq(s, 1, 1) ELSE SubSeq(s, 1, j - 1)

IsPrefix(s, u) == Len(s) <= Len(u) /\ s = SubSeq(u, 1, Len(s))

\* what the rule of C6 gives for the string s, found after the string drive
ParentRule(drive, s) ==
  /\ ret \in {0, -1}
  /\ ret = 0 <=> HasParent(s)
  /\ ret = 0 => out = drive \o ParentOf(s)
  /\ (Len(s) > 0 /\ s[1] \in Seps)
       => (ret = 0 /\ Len(out) > Len(drive) /\ out[Len(drive) + 1] = s[1])
  /\ IsPrefix(out, arg)

(* C6 as claimed: for every input, get_parent_directory drops the trailing
   separators and cuts at the separator before the final component; it
   succeeds exactly when the path starts with a separator or holds a
   separator followed later by a non-separator; a separator at position 0
   is never removed; the result is a prefix of the input. *)
C6_Original == op = "get_parent_directory" => ParentRule(<<>>, arg)

(* C6 as amended: the same, except that on the drive-letter platform a
   leading two-character drive prefix (any character, then a colon) is set
   aside first and kept, and the rule is applied to what follows it. *)
C6_ParentDirectory ==
  op = "get_parent_directory"
    => LET d == IF win32 /\ Len(arg) >= 2 /\ arg[2] = COLON THEN 2 ELSE 0
       IN ParentRule(SubSeq(arg, 1, d), SubSeq(arg, d + 1, Len(arg)))

\* a name under a drive root: the parent is the drive root
C6_Witness ==
  /\ op = "get_parent_directory"
  /\ win32
  /\ Len(arg) = 4
  /\ arg[2] = COLON
  /\ arg[3] = BSL
  /\ arg[4] = "a"
  /\ ret = 0
  /\ out = SubSeq(arg, 1, 3)

(* C7: for every string s, with quotes, backslashes, a backslash before a
   quote or a trailing backslash in it, get_unquoted_path of s written
   between quotes with each of its quotes escaped succeeds and returns s. *)
C7_RoundTrip ==
  op = "get_unquoted_path"
    => \A s \in Strings(QuoteChars, MaxLen) :
         arg = Quote(s) => (ret = "ok" /\ out = s)

\* s is a backslash and a quote
C7_Witness ==
  /\ op = "get_unquoted_path"
  /\ arg = Quote(<<BSL, DQ>>)
  /\ ret = "ok"
  /\ out = <<BSL, DQ>>

\* s without one trailing separator
StripOne(s) ==
  IF Len(s) > 0 /\ s[Len(s)] = FSL THEN SubSeq(s, 1, Len(s) - 1) ELSE s

\* what follows the first separator of s
AfterFirstSlash(s) ==
  IF \E i \in 1..Len(s) : s[i] = FSL
  THEN SubSeq(s, 1 + CHOOSE i \in 1..Len(s) :
                     s[i] = FSL /\ \A j \in 1..(i - 1) : s[j] # FSL,
              Len(s))
  ELSE <<>>

\* the home directory the call resolved: HOME (empty when unset) for "~"
\* and "~/...", the named user's for "~user..."
ResolvedHome ==
  IF Len(arg) = 1 \/ arg[2] = FSL
  THEN (IF env.HOME.null THEN <<>> ELSE env.HOME.val)
  ELSE env.homedir.val

(* C8 as claimed: for an input that starts with '~' and whose home
   directory resolves, whatever that directory is (empty, the root, ending
   in a separator), its trailing separator is stripped and the result is
   home, one separator, the remainder; no two separators meet at the
   join. *)
C8_Original ==
  (op = "expand_filename" /\ ~win32 /\ Len(arg) >= 1 /\ arg[1] = TILDE
     /\ ret = "ok")
    => /\ out = StripOne(ResolvedHome) \o <<FSL>> \o AfterFirstSlash(arg)
       /\ LET j == Len(out) - Len(AfterFirstSlash(arg)) IN
          j > 1 => out[j - 1] # FSL

(* C9 as claimed: no element of a list tor_glob returns ends with a path
   separator, except a root of one separator, which is kept as it is and
   never becomes the empty string. *)
C9_Original ==
  (op = "tor_glob" /\ ret = "ok")
    => \A i \in 1..Len(out) :
         /\ out[i] # <<>>
         /\ out[i][Len(out[i])] \in {FSL, BSL} => Len(out[i]) = 1

====
